---- MODULE Spec2Model ----
(***************************************************************************)
(* A model of scripts/gamepad.py: the GamepadController daemon.            *)
(*                                                                         *)
(* The controller object is the record built by Self: the fields of the    *)
(* Python object (pressed_buttons, last_timestamp, xboxdrv_process,        *)
(* is_bluetooth), the world it acts on (aux_alive: the number of live      *)
(* auxiliary processes it has started) and what one loop iteration did     *)
(* (cmds: the external commands it issued, in order; dispatched: the       *)
(* action methods handle_event called; exc: the exception that left        *)
(* handle_event, if any).  Every method is an operator from such a record  *)
(* to such a record; a method called after an exception was raised is      *)
(* skipped, which is how the exception propagates.                         *)
(*                                                                         *)
(* Time is in whole seconds; every time.time() call of one loop iteration  *)
(* reads the same instant.                                                 *)
(***************************************************************************)
EXTENDS Integers, Sequences, FiniteSets, TLC

VARIABLES
    pc,               \* "init" (constructed), "running" (in read_loop), "exited"
    exit_status,      \* -1 while the process lives, then its exit status
    exit_reason,      \* how the process ended ("" while it lives)
    is_bluetooth,     \* self.is_bluetooth
    pressed_buttons,  \* self.pressed_buttons
    last_timestamp,   \* self.last_timestamp
    xboxdrv_process,  \* self.xboxdrv_process: "None", "running" or "exited"
    aux_alive,        \* live auxiliary processes started by the controller
    now,              \* the clock, as read in the latest loop iteration
    ev,               \* the event of the latest loop iteration
    cmds,             \* commands issued by the latest step
    dispatched,       \* action methods called by the latest handle_event
    exc,              \* exception raised in the latest step ("none": none)
    tested,           \* the set the latest key-down tested the combos against
    active_tty,       \* the tty the latest restart_tty read (-1: none)
    held,             \* history: codes whose latest key event was a press
    since_match,      \* history: presses not released since the last match
    consumed,         \* history: the combo fired last, while all its buttons stay held
    toggle_odd,       \* history: toggle_xboxdrv was called an odd number of times
    indicator_used,   \* history: an indicator command was issued
    supervisor_used,  \* history: the auxiliary process was started or killed
    lightbar,         \* history: the colour pushed last (<<>> before the first)
    disconnect_times  \* history: the times of the disconnect commands, in order

vars == <<pc, exit_status, exit_reason, is_bluetooth, pressed_buttons,
          last_timestamp, xboxdrv_process, aux_alive, now, ev, cmds,
          dispatched, exc, tested, active_tty, held, since_match, consumed,
          toggle_odd, indicator_used, supervisor_used, lightbar,
          disconnect_times>>

(***************************************************************************)
(* evdev.ecodes and evdev.KeyEvent values the program reads.               *)
(***************************************************************************)
EV_SYN == 0
EV_KEY == 1
EV_ABS == 3
BTN_SOUTH == 304
BTN_WEST == 308
BTN_TL == 310
BTN_TR == 311
BTN_SELECT == 314
BTN_START == 315
BTN_MODE == 316
key_up == 0
key_down == 1
key_hold == 2

(***************************************************************************)
(* Numbers of the program.                                                 *)
(***************************************************************************)
DEADZONE_LOW == 120
DEADZONE_HIGH == 140
IDLE_THRESHOLD == 300
BT_INTENSITY == 50
USB_INTENSITY == 255
FIRST_RESTARTABLE_TTY == 9
TTY11 == 11

(***************************************************************************)
(* Bounds of the model.                                                    *)
(***************************************************************************)
MaxTime == 602

Buttons == {BTN_SOUTH, BTN_WEST, BTN_TL, BTN_TR, BTN_SELECT, BTN_START, BTN_MODE}
AxisValues == {DEADZONE_LOW - 1, DEADZONE_LOW, DEADZONE_HIGH, DEADZONE_HIGH + 1}
Deltas == {0, 150, 299, 301}
FgOutputs == {"", "8\n", "9\n", "11\n"}
FailAt == 0..3

KeyEventsOf(B) == [type : {EV_KEY}, code : B, value : {key_up, key_down, key_hold}]
AbsEvents == [type : {EV_ABS}, code : {0}, value : AxisValues]
SynEvents == [type : {EV_SYN}, code : {0}, value : {0}]
EventsOf(B) == KeyEventsOf(B) \cup AbsEvents \cup SynEvents
Events == EventsOf(Buttons)
NoEvent == [type |-> -1, code |-> 0, value |-> 0]

(***************************************************************************)
(* The combo table.                                                        *)
(***************************************************************************)
reset_combo == {BTN_TL, BTN_TR, BTN_MODE}
tty11_combo == {BTN_MODE, BTN_SOUTH}
mangohud_combo == {BTN_MODE, BTN_WEST}
xboxdrv_combo == {BTN_MODE, BTN_START}
makima_combo == {BTN_MODE, BTN_SELECT}

issuperset(s, combo) == combo \subseteq s

\* Names for the four combos handle_event tests, in the words of the log lines.
BoundCombos == {"reset", "tty11", "mangohud", "xboxdrv"}

ComboSet(name) ==
    CASE name = "reset" -> reset_combo
      [] name = "tty11" -> tty11_combo
      [] name = "mangohud" -> mangohud_combo
      [] name = "xboxdrv" -> xboxdrv_combo

\* The bound combos contained in a set of codes.
Contained(p) == {X \in BoundCombos : ComboSet(X) \subseteq p}

IsDown(event) == event.type = EV_KEY /\ event.value = key_down
IsUp(event) == event.type = EV_KEY /\ event.value = key_up

(***************************************************************************)
(* Commands, as the per-step log records them.                             *)
(***************************************************************************)
Cmd(name, args) == [cmd |-> name, arg |-> args]

IndicatorCmds ==
    {"lightbar_rgb", "lightbar_off", "lightbar_on", "lightbar_blink",
     "microphone_led_on", "microphone_led_off"}
SupervisorCmds == {"popen_xboxdrv", "killpg_xboxdrv"}

Raised(self) == self.exc # "none"

\* One statement of a step.  The controller counts the statements it has
\* executed in the step (stmts); SIGINT delivered between two statements
\* raises KeyboardInterrupt in place of the statement whose number the
\* environment names (sigint; 0: no signal), and a statement after an
\* exception is skipped.
Stmt(self, env, after) ==
    IF Raised(self) THEN self
    ELSE IF env.sigint = self.stmts + 1
    THEN [self EXCEPT !.stmts = @ + 1, !.exc = "KeyboardInterrupt"]
    ELSE [after EXCEPT !.stmts = self.stmts + 1]

\* One external command: logged, then executed and waited for.  The k-th
\* command of a step raises what the environment says: OSError (the
\* executable cannot be started) or KeyboardInterrupt (SIGINT arrives during
\* the wait); a non-zero exit status changes nothing.
Exec(self, c, k, env) ==
    Stmt(self, env,
         [self EXCEPT !.cmds = Append(@, c),
                      !.exc = IF env.fail_at = k THEN env.fail_kind ELSE "none"])

run(self, c, k, env) == Exec(self, c, k, env)

\* os.system: the shell's status is not looked at, and SIGINT is ignored
\* while the shell runs.
disconnect_bluetooth(self, env) ==
    IF ~self.is_bluetooth THEN self
    ELSE Stmt(self, env,
              [self EXCEPT !.cmds = Append(@, Cmd("bt_disconnect", <<>>))])

\* os.remove("/tmp/notv"): FileNotFoundError is caught; any other OSError
\* (the path cannot be removed) leaves the method.
remove_notv_file(self, env) ==
    Stmt(self, env,
         [self EXCEPT !.cmds =
             Append(@, Cmd("remove_notv", <<IF env.notv = "absent" THEN 0 ELSE 1>>)),
                      !.exc = IF env.notv = "undeletable" THEN "OSError" ELSE "none"])

\* int(result.stdout.strip()): the number fgconsole printed, or ValueError.
int_strip(s) ==
    CASE s = "8\n" -> [ok |-> TRUE, val |-> 8]
      [] s = "9\n" -> [ok |-> TRUE, val |-> 9]
      [] s = "11\n" -> [ok |-> TRUE, val |-> 11]
      [] OTHER -> [ok |-> FALSE, val |-> 0]

tty_guarded(tty) == tty < FIRST_RESTARTABLE_TTY

restart_tty(self, env) ==
    LET s1 == Exec(self, Cmd("fgconsole", <<>>), 1, env)
        n == int_strip(env.fg)
        s2 == Stmt(s1, env, IF n.ok THEN [s1 EXCEPT !.active_tty = n.val]
                            ELSE [s1 EXCEPT !.exc = "ValueError"])
    IN  IF Raised(s2) \/ tty_guarded(s2.active_tty) THEN s2
        ELSE run(remove_notv_file(s2, env),
                 Cmd("getty_restart", <<s2.active_tty>>), 2, env)

stop_gdm(self, env) == run(self, Cmd("gdm_stop", <<>>), 1, env)

\* Mutant: the marker file is removed after the switch of terminal.
enable_tty_remove_late(self, tty, env) ==
    LET s1 == stop_gdm(self, env)
        s2 == run(s1, Cmd("chvt", <<tty>>), 2, env)
        s3 == remove_notv_file(s2, env)
    IN  run(s3, Cmd("getty_start", <<tty>>), 3, env)

enable_tty(self, tty, env) ==
    LET s1 == stop_gdm(self, env)
        s2 == remove_notv_file(s1, env)
        s3 == run(s2, Cmd("chvt", <<tty>>), 2, env)
    IN  run(s3, Cmd("getty_start", <<tty>>), 3, env)

toggle_mangohud(self, env) == run(self, Cmd("mangohud_toggle", <<>>), 1, env)

\* Mutant: the handle alone is tested, without poll().
is_alive_handle_only(self) == self.xboxdrv_process # "None"

\* self.xboxdrv_process and self.xboxdrv_process.poll() is None
is_alive(self) == self.xboxdrv_process = "running"

determine_lightbar_color(self) ==
    IF is_alive(self) THEN <<0, 255, 0>> ELSE <<0, 0, 255>>

intensity(self) == IF self.is_bluetooth THEN BT_INTENSITY ELSE USB_INTENSITY

set_lightbar(self, r, g, b, k, env) ==
    run(self, Cmd("lightbar_rgb", <<r, g, b, intensity(self)>>), k, env)

update_lightbar(self, k, env) ==
    LET c == determine_lightbar_color(self)
    IN  set_lightbar(self, c[1], c[2], c[3], k, env)

\* set_lightbar_state(state): dualsensectl lightbar <state>
set_lightbar_state(self, state, k, env) ==
    run(self, Cmd("lightbar_" \o state, <<>>), k, env)

\* set_microphone_led(state): dualsensectl microphone-led <state>; nothing
\* calls it
set_microphone_led(self, state, k, env) ==
    run(self, Cmd("microphone_led_" \o state, <<>>), k, env)

\* The auxiliary process exits by itself at the point of a step that the
\* environment names, if it is alive there.
exits_if(self, env, point) ==
    IF env.aux = point /\ is_alive(self)
    THEN [self EXCEPT !.xboxdrv_process = "exited", !.aux_alive = @ - 1]
    ELSE self

\* os.killpg(os.getpgid(pid), SIGKILL): the process group dies and the
\* handle is that of a dead process.  os.getpgid / os.killpg raise
\* ProcessLookupError, an OSError, when the process is gone by the time the
\* kill is issued.
kill_or_raise(self, env) ==
    Stmt(self, env,
         [self EXCEPT !.cmds = Append(@, Cmd("killpg_xboxdrv", <<>>)),
                      !.aux_alive = @ - 1,
                      !.xboxdrv_process = "exited",
                      !.exc = IF env.aux = "gone_at_kill" THEN "OSError"
                              ELSE "none"])

\* The kill, then self.xboxdrv_process = None.
kill_xboxdrv(self, env) ==
    LET s1 == kill_or_raise(self, env)
    IN  Stmt(s1, env, [s1 EXCEPT !.xboxdrv_process = "None"])

\* subprocess.Popen([...], start_new_session=True), then the assignment of
\* the handle.  Popen forks and waits until the child has exec'ed the
\* script: it raises OSError when the script cannot be executed (no child
\* is left), and KeyboardInterrupt when SIGINT arrives during the wait, with
\* the script running unless the signal came before the fork.  In both cases
\* the assignment does not happen.
start_xboxdrv(self, env) ==
    LET raises == env.fail_at = 1
        child == ~raises \/ (env.fail_kind = "KeyboardInterrupt"
                                /\ env.aux # "not_forked")
        s1 == Stmt(self, env,
                   [self EXCEPT !.cmds = Append(@, Cmd("popen_xboxdrv", <<>>)),
                                !.aux_alive = IF child THEN @ + 1 ELSE @,
                                !.exc = IF raises THEN env.fail_kind ELSE "none"])
    IN  Stmt(s1, env, [s1 EXCEPT !.xboxdrv_process = "running"])

\* Mutant: a process is started without asking whether one is alive.
toggle_xboxdrv_no_check(self, env) ==
    update_lightbar(start_xboxdrv(self, env), 2, env)

toggle_xboxdrv(self, env) ==
    LET s0 == exits_if(self, env, "exits_before_toggle")
    IN  IF Raised(self) THEN self
        ELSE IF is_alive(s0)
        THEN update_lightbar(kill_xboxdrv(s0, env), 1, env)
        ELSE update_lightbar(
                 exits_if(start_xboxdrv(s0, env), env, "exits_after_start"),
                 2, env)

(***************************************************************************)
(* handle_event.                                                           *)
(***************************************************************************)
axis_active(value) == value < DEADZONE_LOW \/ value > DEADZONE_HIGH

\* Mutant: the tty11 test placed before the reset test.
matched_combo_tty11_first(pressed) ==
    IF issuperset(pressed, tty11_combo) THEN "tty11"
    ELSE IF issuperset(pressed, reset_combo) THEN "reset"
    ELSE IF issuperset(pressed, mangohud_combo) THEN "mangohud"
    ELSE IF issuperset(pressed, xboxdrv_combo) THEN "xboxdrv"
    ELSE "none"

\* Mutant: the fifth combo is wired to the xboxdrv toggle.
matched_combo_makima_bound(pressed) ==
    IF issuperset(pressed, reset_combo) THEN "reset"
    ELSE IF issuperset(pressed, tty11_combo) THEN "tty11"
    ELSE IF issuperset(pressed, mangohud_combo) THEN "mangohud"
    ELSE IF issuperset(pressed, xboxdrv_combo) THEN "xboxdrv"
    ELSE IF issuperset(pressed, makima_combo) THEN "xboxdrv"
    ELSE "none"

\* The if-chain of handle_event: the first combo, in the order of the
\* code, that pressed_buttons is a superset of; "none" when there is none.
matched_combo(pressed) ==
    IF issuperset(pressed, reset_combo) THEN "reset"
    ELSE IF issuperset(pressed, tty11_combo) THEN "tty11"
    ELSE IF issuperset(pressed, mangohud_combo) THEN "mangohud"
    ELSE IF issuperset(pressed, xboxdrv_combo) THEN "xboxdrv"
    ELSE "none"

action_of(combo) ==
    CASE combo = "reset" -> "restart_tty"
      [] combo = "tty11" -> "enable_tty"
      [] combo = "mangohud" -> "toggle_mangohud"
      [] combo = "xboxdrv" -> "toggle_xboxdrv"

\* Mutant: the tty11 branch calls toggle_mangohud.
call_action_wrong_binding(self, combo, env) ==
    LET c == IF combo = "tty11" THEN "mangohud" ELSE combo
        s == Stmt(self, env, [self EXCEPT !.dispatched = Append(@, action_of(c))])
    IN  CASE c = "reset" -> restart_tty(s, env)
          [] c = "mangohud" -> toggle_mangohud(s, env)
          [] c = "xboxdrv" -> toggle_xboxdrv(s, env)

\* The call of the action bound to a matched combo.
call_action(self, combo, env) ==
    LET s == Stmt(self, env,
                  [self EXCEPT !.dispatched = Append(@, action_of(combo))])
    IN  CASE combo = "reset" -> restart_tty(s, env)
          [] combo = "tty11" -> enable_tty(s, TTY11, env)
          [] combo = "mangohud" -> toggle_mangohud(s, env)
          [] combo = "xboxdrv" -> toggle_xboxdrv(s, env)

\* Mutant: the set is not cleared on a match.
clear_pressed_keep(self, env) == Stmt(self, env, self)

\* pressed_buttons = set() before the action is called
clear_pressed(self, env) ==
    Stmt(self, env, [self EXCEPT !.pressed_buttons = {}])

\* pressed_buttons.add(event.code); the combo tests read the set it leaves
add_pressed(self, code, env) ==
    LET p == self.pressed_buttons \cup {code}
    IN  Stmt(self, env, [self EXCEPT !.pressed_buttons = p, !.tested = p])

on_key_down(self, code, env) ==
    LET s == add_pressed(self, code, env)
        m == matched_combo(s.pressed_buttons)
    IN  IF Raised(s) \/ m = "none" THEN s
        ELSE call_action(clear_pressed(s, env), m, env)

\* Mutant: a release is not taken out of the set.
on_key_up_ignore(self, code, env) == Stmt(self, env, self)

\* Mutant: a release empties the set.
on_key_up_clear(self, code, env) ==
    Stmt(self, env, [self EXCEPT !.pressed_buttons = {}])

on_key_up(self, code, env) ==
    Stmt(self, env, [self EXCEPT !.pressed_buttons = @ \ {code}])

on_abs(self, value, t, env) ==
    IF axis_active(value)
    THEN Stmt(self, env, [self EXCEPT !.last_timestamp = t])
    ELSE self

on_key(self, event, t, env) ==
    LET s == Stmt(self, env, [self EXCEPT !.last_timestamp = t])
    IN  IF event.value = key_down THEN on_key_down(s, event.code, env)
        ELSE IF event.value = key_up THEN on_key_up(s, event.code, env)
        ELSE s

handle_event(self, event, t, env) ==
    LET s == IF event.type = EV_ABS THEN on_abs(self, event.value, t, env)
             ELSE self
    IN  IF event.type = EV_KEY THEN on_key(s, event, t, env) ELSE s

(***************************************************************************)
(* main_loop.                                                              *)
(***************************************************************************)
\* Mutant: the threshold itself counts as idle.
is_idle_at_threshold(self, t) ==
    self.is_bluetooth /\ t - self.last_timestamp >= IDLE_THRESHOLD

is_idle(self, t) == self.is_bluetooth /\ t - self.last_timestamp > IDLE_THRESHOLD

\* Mutant: the disconnect leaves last_timestamp as it was.
idle_check_no_reset(self, t, env) ==
    IF is_idle(self, t) THEN disconnect_bluetooth(self, env) ELSE self

\* Lines 236-239: the idle check that precedes handle_event.
idle_check(self, t, env) ==
    LET s == disconnect_bluetooth(self, env)
    IN  IF is_idle(self, t)
        THEN Stmt(s, env, [s EXCEPT !.last_timestamp = t])
        ELSE self

\* The except OSError clause, entered with the exception caught: kill the
\* auxiliary process if it is alive, then sys.exit(0).  What the clause
\* itself raises is left in exc.
on_os_error(self, env) ==
    LET s0 == exits_if(self, env, "exits_before_handler")
        s1 == IF is_alive(s0) THEN kill_xboxdrv(s0, env) ELSE s0
    IN  Stmt(s1, env, s1)

\* The except KeyboardInterrupt clause, entered with the exception caught: a
\* log line, after which main_loop returns.  No try block covers the clause:
\* SIGINT arriving again while it runs (again) raises a KeyboardInterrupt
\* that nothing catches, and that is left in exc.
on_keyboard_interrupt(self, env) ==
    IF env.again
    THEN [self EXCEPT !.stmts = @ + 1, !.exc = "KeyboardInterrupt"]
    ELSE [self EXCEPT !.stmts = @ + 1]

\* Mutant: the event is handled before the idle check.
loop_body_handle_first(self, event, t, env) ==
    LET s == idle_check(handle_event(self, event, t, env), t, env)
    IN  Stmt(s, env, s)

\* One iteration of the for loop: the idle check, handle_event, and the
\* return to the for statement, where the next event is waited for.
loop_body(self, event, t, env) ==
    LET s == handle_event(idle_check(self, t, env), event, t, env)
    IN  Stmt(s, env, s)

\* One iteration with the except clauses of main_loop: the controller it
\* ends with (exc: the exception that ended it; that of an except clause
\* when the clause itself raises) and how the process goes on (status -1:
\* with the next event).
iteration(self, event, t, env) ==
    LET s == loop_body(self, event, t, env)
        h == on_os_error([s EXCEPT !.exc = "none"], env)
        k == on_keyboard_interrupt([s EXCEPT !.exc = "none"], env)
    IN  IF s.exc = "OSError"
        THEN IF h.exc = "OSError"
             THEN [ctl |-> h, status |-> 1, reason |-> "uncaught OSError"]
             ELSE IF h.exc = "KeyboardInterrupt"
             THEN [ctl |-> h, status |-> 130,
                   reason |-> "uncaught KeyboardInterrupt"]
             ELSE [ctl |-> [h EXCEPT !.exc = "OSError"], status |-> 0,
                   reason |-> "OSError"]
        ELSE IF s.exc = "KeyboardInterrupt"
        THEN IF k.exc = "KeyboardInterrupt"
             THEN [ctl |-> k, status |-> 130,
                   reason |-> "uncaught KeyboardInterrupt"]
             ELSE [ctl |-> [k EXCEPT !.exc = "KeyboardInterrupt"], status |-> 0,
                   reason |-> "KeyboardInterrupt"]
        ELSE IF s.exc = "ValueError"
        THEN [ctl |-> s, status |-> 1, reason |-> "uncaught ValueError"]
        ELSE [ctl |-> s, status |-> -1, reason |-> ""]

\* Mutant: the wireless start-up goes straight to blue.
startup_indicator_no_blink(self, env) == set_lightbar(self, 0, 0, 255, 1, env)

\* The start of main_loop, up to the opening of the device.
startup_indicator(self, env) ==
    IF self.is_bluetooth
    THEN set_lightbar(set_lightbar_state(self, "off", 1, env), 0, 0, 255, 2, env)
    ELSE set_lightbar(self, 0, 0, 255, 1, env)

(***************************************************************************)
(* The state machine.                                                      *)
(***************************************************************************)
Self ==
    [pressed_buttons |-> pressed_buttons,
     last_timestamp |-> last_timestamp,
     xboxdrv_process |-> xboxdrv_process,
     is_bluetooth |-> is_bluetooth,
     aux_alive |-> aux_alive,
     cmds |-> <<>>,
     dispatched |-> <<>>,
     exc |-> "none",
     tested |-> {},
     active_tty |-> -1,
     stmts |-> 0]

NoEnv ==
    [fail_at |-> 0, fail_kind |-> "OSError", fg |-> "9\n", notv |-> "absent",
     aux |-> "stays", sigint |-> 0, again |-> FALSE]

\* What a command that does not return raises.
FailKinds == {"OSError", "KeyboardInterrupt"}
\* /tmp/notv when os.remove is called.
NotvStates == {"absent", "present", "undeletable"}

\* What may happen to the auxiliary process during a step: it stays, it
\* exits by itself before one of the polls of the step, it is gone when the
\* kill is issued, or SIGINT ends Popen before the fork.
AuxFates ==
    {"stays", "exits_before_toggle", "exits_after_start",
     "exits_before_handler", "gone_at_kill", "not_forked"}
FatesAtToggle ==
    IF xboxdrv_process = "running"
    THEN {"stays", "exits_before_toggle", "gone_at_kill"}
    ELSE {"stays", "exits_after_start", "exits_before_handler", "gone_at_kill",
          "not_forked"}
FatesAtHandler ==
    IF xboxdrv_process = "running"
    THEN {"stays", "exits_before_handler", "gone_at_kill"}
    ELSE {"stays"}

\* Two environments that differ only in a choice the action never reads are
\* one environment; this keeps the one that has the first value there.
\*   - what a command raises is read only when a command does not return;
\*   - the handler's poll and kill happen only after an OSError;
\*   - whether Popen had forked is read only when SIGINT ends Popen;
\*   - /tmp/notv and the commands after its removal are reached only when
\*     the commands before returned, fgconsole printed a terminal that is
\*     not guarded, and the removal did not raise.
Told(combo, e) ==
    /\ e.fail_at = 0 => e.fail_kind = "OSError"
    /\ (combo # "xboxdrv" /\ e.aux # "stays") =>
          \/ e.fail_at > 0 /\ e.fail_kind = "OSError"
          \/ e.notv = "undeletable"
    /\ e.aux = "not_forked" =>
          (e.fail_at = 1 /\ e.fail_kind = "KeyboardInterrupt")
    /\ e.fail_at = 1 => (e.notv = "absent" /\ e.fg = "9\n")
    /\ (combo = "reset" /\ (~int_strip(e.fg).ok \/ tty_guarded(int_strip(e.fg).val))) =>
          (e.notv = "absent" /\ e.fail_at <= 1)
    /\ e.notv = "undeletable" => e.fail_at <= 1

\* What the environment decides for the action of a combo: which of its
\* commands does not return (0: none) and what it raises, what fgconsole
\* prints, the state of /tmp/notv, what happens to the auxiliary process.
EnvsOf(combo) ==
    LET E == CASE combo = "reset" ->
                    [fail_at : 0..2, fail_kind : FailKinds, fg : FgOutputs,
                     notv : NotvStates, aux : FatesAtHandler, sigint : {0}, again : {FALSE}]
               [] combo = "tty11" ->
                    [fail_at : 0..3, fail_kind : FailKinds, fg : {"9\n"},
                     notv : NotvStates, aux : FatesAtHandler, sigint : {0}, again : {FALSE}]
               [] combo = "mangohud" ->
                    [fail_at : 0..1, fail_kind : FailKinds, fg : {"9\n"},
                     notv : {"absent"}, aux : FatesAtHandler, sigint : {0}, again : {FALSE}]
               [] combo = "xboxdrv" ->
                    [fail_at : 0..2, fail_kind : FailKinds, fg : {"9\n"},
                     notv : {"absent"}, aux : FatesAtToggle, sigint : {0}, again : {FALSE}]
    IN  {e \in E : Told(combo, e)}

\* The environment matters only to an event that calls an action.
EnvsFor(event) ==
    IF IsDown(event)
    THEN {NoEnv} \cup
         UNION {EnvsOf(X) : X \in Contained(pressed_buttons \cup {event.code})}
    ELSE {NoEnv}

\* An environment, and the same with SIGINT in place of each statement that
\* the step executes under it.
WithSigint(e, n) == {e} \cup {[e EXCEPT !.sigint = i] : i \in 1..n}

\* An environment, and the same with SIGINT arriving again in the except
\* KeyboardInterrupt clause; read only by a step that enters the clause.
WithAgain(e) == {e, [e EXCEPT !.again = TRUE]}

\* The ends one iteration can take on an event at time t: every environment
\* of the event, without a signal, with SIGINT at every statement, and with
\* SIGINT again in the except KeyboardInterrupt clause.
Ends(event, t) ==
    LET of(e) == iteration(Self, event, t, e)
        all(e) == UNION {WithAgain(x) : x \in WithSigint(e, of(e).ctl.stmts)}
    IN  UNION {{[of(x) EXCEPT !.ctl.stmts = 0] : x \in all(e)} :
                  e \in EnvsFor(event)}

Has(log, names) == \E i \in 1..Len(log) : log[i].cmd \in names
Called(log, name) == \E i \in 1..Len(log) : log[i] = name

\* The colour of the last lightbar command of a log, or the colour before.
LightbarAfter(log) ==
    LET I == {i \in 1..Len(log) : log[i].cmd = "lightbar_rgb"}
    IN  IF I = {} THEN lightbar
        ELSE LET last == CHOOSE i \in I : \A j \in I : j <= i
             IN  <<log[last].arg[1], log[last].arg[2], log[last].arg[3]>>

\* The times of the disconnect commands, with those of a log issued at t.
DisconnectTimesAfter(log, t) ==
    IF Has(log, {"bt_disconnect"}) THEN Append(disconnect_times, t)
    ELSE disconnect_times

\* What a step leaves in the variables, given the controller it ends with.
Store(s) ==
    /\ pressed_buttons' = s.pressed_buttons
    /\ last_timestamp' = s.last_timestamp
    /\ xboxdrv_process' = s.xboxdrv_process
    /\ aux_alive' = s.aux_alive
    /\ cmds' = s.cmds
    /\ dispatched' = s.dispatched
    /\ exc' = s.exc
    /\ tested' = s.tested
    /\ active_tty' = s.active_tty
    /\ lightbar' = LightbarAfter(s.cmds)
    /\ indicator_used' = (indicator_used \/ Has(s.cmds, IndicatorCmds))
    /\ supervisor_used' = (supervisor_used \/ Has(s.cmds, SupervisorCmds))
    /\ toggle_odd' = (toggle_odd # Called(s.dispatched, "toggle_xboxdrv"))
    /\ UNCHANGED is_bluetooth

Exit(status, reason) ==
    /\ pc' = "exited"
    /\ exit_status' = status
    /\ exit_reason' = reason

\* main up to the call of main_loop: the usage check, then the constructor,
\* whose bluetoothctl command raises OSError when it cannot be started and
\* KeyboardInterrupt when SIGINT arrives while it is waited for.
Init ==
    /\ \/ /\ pc = "init"
          /\ exit_status = -1
          /\ exit_reason = ""
          /\ is_bluetooth \in BOOLEAN
          /\ exc = "none"
       \/ /\ pc = "exited"
          /\ \/ exit_status = 1 /\ exit_reason = "usage" /\ exc = "none"
             \/ /\ exit_status = 1
                /\ exit_reason = "constructor OSError"
                /\ exc = "OSError"
             \/ /\ exit_status = 130
                /\ exit_reason = "constructor KeyboardInterrupt"
                /\ exc = "KeyboardInterrupt"
          /\ is_bluetooth = FALSE
    /\ pressed_buttons = {}
    /\ last_timestamp = 0
    /\ xboxdrv_process = "None"
    /\ aux_alive = 0
    /\ now = 0
    /\ ev = NoEvent
    /\ cmds = <<>>
    /\ dispatched = <<>>
    /\ tested = {}
    /\ active_tty = -1
    /\ lightbar = <<>>
    /\ disconnect_times = <<>>
    /\ held = {}
    /\ since_match = {}
    /\ consumed = "none"
    /\ toggle_odd = FALSE
    /\ indicator_used = FALSE
    /\ supervisor_used = FALSE

\* main_loop, lines 215-231, up to the statement that opens the device.
open_device(self, env) ==
    LET s == startup_indicator(self, env)
    IN  Stmt(s, env, s)

\* SIGINT during the start of main_loop, lines 215-231, which no try block
\* covers (during a sleep, during a command, at the opening of the device):
\* the process dies by KeyboardInterrupt (status 130) with the commands
\* issued so far.
StartupInterrupt ==
    /\ pc = "init"
    /\ \E env \in {[NoEnv EXCEPT !.fail_at = k, !.fail_kind = "KeyboardInterrupt"] :
                       k \in 1..2}
                  \cup WithSigint(NoEnv, open_device(Self, NoEnv).stmts) :
          LET s == open_device(Self, env)
          IN  /\ s.exc = "KeyboardInterrupt"
              /\ Store(s)
    /\ Exit(130, "uncaught KeyboardInterrupt")
    /\ ev' = NoEvent
    /\ UNCHANGED <<now, held, since_match, consumed, disconnect_times>>

\* main_loop, lines 215-231: the indicator sequence, then the device.
Startup ==
    /\ pc = "init"
    /\ \E fail \in 0..2, open \in {"ok", "FileNotFoundError", "OSError"} :
          LET s == open_device(Self, [NoEnv EXCEPT !.fail_at = fail])
          IN  IF Raised(s) THEN Store(s) /\ Exit(1, "uncaught OSError")
              ELSE IF open = "FileNotFoundError"
              THEN Store(s) /\ Exit(1, "device not found")
              ELSE IF open = "OSError"
              THEN Store([s EXCEPT !.exc = "OSError"]) /\ Exit(1, "uncaught OSError")
              ELSE /\ Store(s)
                   /\ pc' = "running"
                   /\ UNCHANGED <<exit_status, exit_reason>>
    /\ ev' = NoEvent
    /\ UNCHANGED <<now, held, since_match, consumed, disconnect_times>>

HeldAfter(event) ==
    IF event.type # EV_KEY THEN held
    ELSE IF event.value = key_down THEN held \cup {event.code}
    ELSE IF event.value = key_up THEN held \ {event.code}
    ELSE held

SinceMatchAfter(event) ==
    IF event.type # EV_KEY THEN since_match
    ELSE IF event.value = key_down
         THEN IF Contained(since_match \cup {event.code}) # {}
              THEN {}
              ELSE since_match \cup {event.code}
    ELSE IF event.value = key_up THEN since_match \ {event.code}
    ELSE since_match

\* The combo that fired last, as long as none of its buttons has been
\* released since; "none" before the first match and after such a release.
ConsumedAfter(event, log) ==
    IF \E X \in BoundCombos : Called(log, action_of(X))
    THEN CHOOSE X \in BoundCombos : Called(log, action_of(X))
    ELSE IF consumed # "none" /\ IsUp(event) /\ event.code \in ComboSet(consumed)
    THEN "none"
    ELSE consumed

\* One iteration of the for loop of main_loop, lines 234-249.
ReadEvent(Evs, Dts) ==
    /\ pc = "running"
    /\ \E event \in Evs, d \in Dts :
          /\ now + d <= MaxTime
          /\ now' = now + d
          /\ ev' = event
          /\ held' = HeldAfter(event)
          /\ since_match' = SinceMatchAfter(event)
          /\ \E end \in Ends(event, now + d) :
                /\ consumed' = ConsumedAfter(event, end.ctl.dispatched)
                /\ disconnect_times' = DisconnectTimesAfter(end.ctl.cmds, now + d)
                /\ Store(end.ctl)
                /\ IF end.status = -1
                   THEN UNCHANGED <<pc, exit_status, exit_reason>>
                   ELSE Exit(end.status, end.reason)

\* KeyboardInterrupt while blocked in read_loop, lines 241-242: the clause
\* logs and main_loop returns (status 0), unless SIGINT arrives again in the
\* clause, which nothing catches (status 130).
Interrupt ==
    /\ pc = "running"
    /\ \E env \in WithAgain(NoEnv) :
          LET k == on_keyboard_interrupt(Self, env)
          IN  /\ Store([k EXCEPT !.stmts = 0])
              /\ IF k.exc = "KeyboardInterrupt"
                 THEN Exit(130, "uncaught KeyboardInterrupt")
                 ELSE Exit(0, "KeyboardInterrupt")
    /\ ev' = NoEvent
    /\ UNCHANGED <<now, held, since_match, consumed, disconnect_times>>

\* OSError from read_loop (the device went away), lines 243-249.
DeviceError ==
    /\ pc = "running"
    /\ \E fate \in FatesAtHandler :
          LET e == [NoEnv EXCEPT !.aux = fate]
          IN  \E env \in WithSigint(e, on_os_error(Self, e).stmts) :
                 LET h == on_os_error(Self, env)
                 IN  /\ Store(h)
                     /\ IF h.exc = "OSError" THEN Exit(1, "uncaught OSError")
                        ELSE IF h.exc = "KeyboardInterrupt"
                        THEN Exit(130, "uncaught KeyboardInterrupt")
                        ELSE Exit(0, "OSError")
    /\ ev' = NoEvent
    /\ UNCHANGED <<now, held, since_match, consumed, disconnect_times>>

\* The for loop running out of events: main_loop returns.
EndOfStream ==
    /\ pc = "running"
    /\ Store(Self)
    /\ Exit(0, "end of stream")
    /\ ev' = NoEvent
    /\ UNCHANGED <<now, held, since_match, consumed, disconnect_times>>

\* The auxiliary process exits by itself; the handle stays.
AuxExit ==
    /\ xboxdrv_process = "running"
    /\ xboxdrv_process' = "exited"
    /\ aux_alive' = aux_alive - 1
    /\ ev' = NoEvent
    /\ cmds' = <<>>
    /\ dispatched' = <<>>
    /\ exc' = "none"
    /\ tested' = {}
    /\ active_tty' = -1
    /\ UNCHANGED <<pc, exit_status, exit_reason, is_bluetooth, pressed_buttons,
                   last_timestamp, now, held, since_match, consumed,
                   toggle_odd, indicator_used, supervisor_used, lightbar,
                   disconnect_times>>

Next ==
    \/ Startup
    \/ StartupInterrupt
    \/ ReadEvent(Events, Deltas)
    \/ Interrupt
    \/ DeviceError
    \/ EndOfStream
    \/ AuxExit

Spec == Init /\ [][Next]_vars

(***************************************************************************)
(* The same machine on parts of its input alphabet, with every way a step  *)
(* can end.  An action that the alphabet never enables is left out.        *)
(*   SpecChord: the buttons of the reset, tty11 and mangohud combos, no    *)
(*              time passing; no auxiliary process is ever started.        *)
(*   SpecIdle:  the buttons of one combo, the clock advancing.             *)
(*   SpecLife:  the buttons of the reset and xboxdrv combos, no time       *)
(*              passing.                                                   *)
(*   SpecMakima: the presses and releases of the buttons of the unbound    *)
(*              fifth combo and of the third buttons of the combos that    *)
(*              share BTN_MODE with it, no time passing.                   *)
(***************************************************************************)
ChordButtons == reset_combo \cup tty11_combo \cup mangohud_combo

NextChord ==
    \/ Startup
    \/ StartupInterrupt
    \/ ReadEvent(EventsOf(ChordButtons), {0})
    \/ Interrupt
    \/ DeviceError
    \/ EndOfStream

SpecChord == Init /\ [][NextChord]_vars

IdleButtons == {BTN_MODE, BTN_WEST}

NextIdle ==
    \/ Startup
    \/ StartupInterrupt
    \/ ReadEvent(EventsOf(IdleButtons), Deltas)
    \/ Interrupt
    \/ DeviceError
    \/ EndOfStream

SpecIdle == Init /\ [][NextIdle]_vars

LifeButtons == {BTN_TL, BTN_TR, BTN_MODE, BTN_START}

NextLife ==
    \/ Startup
    \/ StartupInterrupt
    \/ ReadEvent(EventsOf(LifeButtons), {0})
    \/ Interrupt
    \/ DeviceError
    \/ EndOfStream
    \/ AuxExit

SpecLife == Init /\ [][NextLife]_vars

MakimaButtons == makima_combo \cup {BTN_SOUTH, BTN_WEST, BTN_START}
PressEventsOf(B) == [type : {EV_KEY}, code : B, value : {key_up, key_down}]

NextMakima ==
    \/ Startup
    \/ StartupInterrupt
    \/ ReadEvent(PressEventsOf(MakimaButtons), {0})
    \/ Interrupt
    \/ DeviceError
    \/ EndOfStream
    \/ AuxExit

SpecMakima == Init /\ [][NextMakima]_vars

(***************************************************************************)
(* Properties.                                                             *)
(***************************************************************************)
\* The bound combo that comes first in the order reset, tty11, mangohud,
\* xboxdrv among a non-empty set of them.
Priority == <<"reset", "tty11", "mangohud", "xboxdrv">>
FirstOf(M) == Priority[CHOOSE i \in 1..4 : Priority[i] \in M /\ \A j \in 1..(i - 1) : Priority[j] \notin M]

EventStep == ev' # NoEvent

\* C1, as stated: after any replay of button events pressed_buttons is the
\* set of codes pressed and not yet released, except right after a combo
\* match, where it is empty.
C1_PressedIsHeld ==
    pc = "running" =>
        IF dispatched # <<>> THEN pressed_buttons = {} ELSE pressed_buttons = held

\* C1, amended: once handle_event is done with an event (no signal has cut
\* it short), pressed_buttons is the set of codes pressed and not yet
\* released since the latest combo match (since the start when there was
\* none), and it is empty right after a combo match.
C1_PressedSinceMatch ==
    exc # "KeyboardInterrupt" =>
        /\ pressed_buttons = since_match
        /\ dispatched # <<>> => pressed_buttons = {}

\* C1 witness: after a match, a further press is in the set while the
\* buttons of the combo, still held, are not.
C1_Witness ==
    /\ pc = "running"
    /\ IsDown(ev)
    /\ dispatched = <<>>
    /\ pressed_buttons = {BTN_WEST}
    /\ held = {BTN_MODE, BTN_SOUTH, BTN_WEST}
    /\ consumed = "tty11"

\* C2: once a combo has fired, a button-down of a button outside it, while
\* none of its buttons has been released, does not call its action again.
C2_NoRefire ==
    [][(/\ EventStep
        /\ consumed # "none"
        /\ IsDown(ev')
        /\ ev'.code \notin ComboSet(consumed))
       => ~Called(dispatched', action_of(consumed))]_vars

\* C2 witness: tty11 fired, MODE and SOUTH stay held, and a third button
\* went down without anything being called.
C2_Witness ==
    /\ consumed = "tty11"
    /\ tty11_combo \subseteq held
    /\ IsDown(ev)
    /\ ev.code = BTN_TL
    /\ dispatched = <<>>
    /\ pc = "running"

\* C3: a button-down that leaves pressed_buttons a superset of two or more
\* bound combos calls no action but that of the first of them in the order
\* reset, tty11, mangohud, xboxdrv, and it calls that one unless a signal
\* cuts the handling of the event short; and for every set of codes that
\* contains two or more bound combos the if-chain gives the first of them
\* (a statement about all seven buttons, checked in the constructed state).
C3_Priority ==
    /\ [][(EventStep /\ IsDown(ev')) =>
            LET M == Contained(pressed_buttons \cup {ev'.code})
            IN  Cardinality(M) >= 2 =>
                   /\ dispatched' \in {<<>>, <<action_of(FirstOf(M))>>}
                   /\ exc' # "KeyboardInterrupt" =>
                          dispatched' = <<action_of(FirstOf(M))>>]_vars
    /\ [](pc = "init" =>
            \A p \in SUBSET Buttons :
               Cardinality(Contained(p)) >= 2 =>
                  matched_combo(p) = FirstOf(Contained(p)))

\* C3 witness: MODE went down with TL, TR and SOUTH in the set; only
\* restart_tty was called.
C3_Witness ==
    /\ IsDown(ev)
    /\ ev.code = BTN_MODE
    /\ tested = {BTN_TL, BTN_TR, BTN_SOUTH, BTN_MODE}
    /\ dispatched = <<"restart_tty">>

\* C4: a button-down after which pressed_buttons contains a bound combo
\* calls exactly one action, the one bound to the matched combo, and leaves
\* pressed_buttons empty; any other button-down calls no action and leaves
\* pressed_buttons the previous set plus the pressed code.  This is stated
\* of every button-down that no signal cuts short, and of the key-down
\* branch of handle_event on every set of the seven buttons (checked in the
\* constructed state).
C4_DownDispatch ==
    /\ [][(EventStep /\ IsDown(ev')) =>
            LET p == pressed_buttons \cup {ev'.code}
                M == Contained(p)
            IN  IF M # {}
                THEN exc' # "KeyboardInterrupt" =>
                        /\ dispatched' = <<action_of(FirstOf(M))>>
                        /\ pressed_buttons' = {}
                ELSE /\ dispatched' = <<>>
                     /\ exc' # "KeyboardInterrupt" => pressed_buttons' = p]_vars
    /\ [](pc = "init" =>
            \A q \in SUBSET Buttons, code \in Buttons :
               LET r == on_key_down([Self EXCEPT !.pressed_buttons = q], code, NoEnv)
                   M == Contained(q \cup {code})
               IN  IF M # {}
                   THEN /\ r.dispatched = <<action_of(FirstOf(M))>>
                        /\ r.pressed_buttons = {}
                   ELSE /\ r.dispatched = <<>>
                        /\ r.pressed_buttons = q \cup {code})

\* C4 witness: [down(BTN_MODE), down(BTN_SOUTH)] called enable_tty and
\* emptied the set.
C4_Witness ==
    /\ IsDown(ev)
    /\ ev.code = BTN_SOUTH
    /\ tested = tty11_combo
    /\ held = tty11_combo
    /\ dispatched = <<"enable_tty">>
    /\ pressed_buttons = {}
    /\ pc = "running"

\* C5: a button-up calls no action and only removes its code from
\* pressed_buttons (it has removed it unless a signal cut the handling
\* short, and then the set is as it was); an axis event calls no action and
\* leaves pressed_buttons as it was.
C5_UpAndAxis ==
    [][/\ (EventStep /\ IsUp(ev')) =>
              /\ dispatched' = <<>>
              /\ pressed_buttons' \in {pressed_buttons, pressed_buttons \ {ev'.code}}
              /\ exc' # "KeyboardInterrupt" =>
                     pressed_buttons' = pressed_buttons \ {ev'.code}
       /\ (EventStep /\ ev'.type = EV_ABS) =>
              /\ dispatched' = <<>>
              /\ pressed_buttons' = pressed_buttons]_vars

\* C5 witness: a button-up of a code that is held but no longer in the set
\* (a match removed it), with other codes in the set.
C5_Witness ==
    /\ IsUp(ev)
    /\ ev.code = BTN_MODE
    /\ consumed = "none"
    /\ pressed_buttons = {BTN_TL, BTN_TR}
    /\ BTN_SOUTH \in held
    /\ dispatched = <<>>

\* C6: while an event is processed at time now, with last_timestamp = T,
\* the disconnect command is issued only if the transport is wireless and
\* now - T > 300, and then it is issued unless a signal cuts the iteration
\* short; no step other than the processing of an event issues it.
C6_IdleSignal ==
    /\ [][EventStep =>
            LET idle == is_bluetooth /\ now' - last_timestamp > IDLE_THRESHOLD
            IN  /\ Has(cmds', {"bt_disconnect"}) => idle
                /\ (idle /\ exc' # "KeyboardInterrupt")
                      => Has(cmds', {"bt_disconnect"})]_vars
    /\ [](ev = NoEvent => ~Has(cmds, {"bt_disconnect"}))

\* C6 witness: a wireless controller disconnected by the event that arrived
\* 301 seconds after the last activity.
C6_Witness ==
    /\ is_bluetooth
    /\ ev # NoEvent
    /\ now = IDLE_THRESHOLD + 1
    /\ last_timestamp = now
    /\ Has(cmds, {"bt_disconnect"})

\* C7, as stated: however the loop ends (end of stream, interrupt, device
\* I/O error), the daemon does not exit leaving a live auxiliary process.
C7_AuxKilledOnExit ==
    (pc = "exited" /\ exit_reason \in {"end of stream", "KeyboardInterrupt", "OSError"})
        => aux_alive = 0

StartupCmds ==
    IF is_bluetooth
    THEN <<Cmd("lightbar_off", <<>>), Cmd("lightbar_rgb", <<0, 0, 255, 50>>)>>
    ELSE <<Cmd("lightbar_rgb", <<0, 0, 255, 255>>)>>

\* C8, as stated: when the device is not found the process exits with
\* status 1 and has performed no indicator action and no supervisor action.
C8_OpenFailNoActions ==
    exit_reason = "device not found" =>
        /\ exit_status = 1
        /\ ~indicator_used
        /\ ~supervisor_used

\* C8, amended: when the device is not found the process exits with status
\* 1, has performed no supervisor action, and the commands it has issued
\* are exactly the start-up indicator sequence (off then blue at 50 when
\* wireless, blue at 255 when wired), which precedes the opening.
C8_OpenFailAfterStartupIndicator ==
    exit_reason = "device not found" =>
        /\ exit_status = 1
        /\ ~supervisor_used
        /\ cmds = StartupCmds

\* C8 witness: a wireless controller whose device was not found.
C8_Witness ==
    /\ pc = "exited"
    /\ exit_reason = "device not found"
    /\ is_bluetooth
    /\ indicator_used

\* C9, as stated: a failure to start the auxiliary process leaves the
\* handle empty and the controller Running.
C9_SpawnFailureKeepsRunning ==
    (/\ Len(cmds) > 0
     /\ cmds[Len(cmds)].cmd = "popen_xboxdrv"
     /\ exc = "OSError")
        => (xboxdrv_process = "None" /\ pc = "running")

\* C10, as stated: the n-th call of toggle_xboxdrv leaves the auxiliary
\* process alive iff n is odd.
C10_AliveIffOddCall ==
    (Called(dispatched, "toggle_xboxdrv") /\ exc = "none")
        => ((aux_alive = 1) <=> toggle_odd)

\* C10, amended: a call of toggle_xboxdrv that returns either kills the
\* auxiliary process, which was alive, and leaves none alive and the handle
\* empty, or starts one and keeps its handle; it starts one whenever none
\* was alive when the call began, and the process it started is alive after
\* the call unless it has exited by itself by then.
C10_ToggleFlipsLiveness ==
    [][(EventStep /\ Called(dispatched', "toggle_xboxdrv") /\ exc' = "none")
        => /\ Has(cmds', {"killpg_xboxdrv"}) # Has(cmds', {"popen_xboxdrv"})
           /\ Has(cmds', {"killpg_xboxdrv"}) =>
                 /\ aux_alive = 1
                 /\ aux_alive' = 0
                 /\ xboxdrv_process' = "None"
           /\ Has(cmds', {"popen_xboxdrv"}) =>
                 /\ xboxdrv_process' \in {"running", "exited"}
                 /\ (aux_alive' = 1) <=> (xboxdrv_process' = "running")
                 /\ (aux_alive' = 0) <=> (xboxdrv_process' = "exited")
           /\ aux_alive = 0 => Has(cmds', {"popen_xboxdrv"})]_vars

\* C10 witness: the process exited by itself, and the second call started
\* it again.
C10_Witness ==
    /\ Called(dispatched, "toggle_xboxdrv")
    /\ exc = "none"
    /\ ~toggle_odd
    /\ aux_alive = 1
    /\ xboxdrv_process = "running"

\* C11: at most one auxiliary process started by the controller is alive,
\* after any sequence of events, toggles and exits of the process by itself.
C11_AtMostOneAux == aux_alive <= 1

\* C11 witness: a call of toggle_xboxdrv has just started the process and
\* it is the one live process.
C11_Witness ==
    /\ pc = "running"
    /\ Has(cmds, {"popen_xboxdrv"})
    /\ toggle_odd
    /\ xboxdrv_process = "running"
    /\ aux_alive = 1

GREEN == <<0, 255, 0>>
BLUE == <<0, 0, 255>>

\* C12, as stated: every call of toggle_xboxdrv pushes a colour that is
\* green iff the auxiliary process is alive after the call and blue
\* otherwise, and in every Running state the colour pushed last is green
\* iff the auxiliary process is alive.
C12_ColourTracksLiveness ==
    /\ Called(dispatched, "toggle_xboxdrv") =>
          /\ Len(cmds) > 0
          /\ cmds[Len(cmds)].cmd = "lightbar_rgb"
          /\ lightbar = (IF aux_alive = 1 THEN GREEN ELSE BLUE)
    /\ pc = "running" => ((lightbar = GREEN) <=> (aux_alive = 1))

\* C13, as stated, of a process that entered main_loop: the exit status is
\* 0 when the loop ends by interrupt, end of stream or device I/O error, and
\* it is 1 only when the opening of the device failed; no event handled in
\* Running leads to another status.
C13_ExitStatus ==
    (/\ pc = "exited"
     /\ exit_reason \notin {"usage", "constructor OSError",
                            "constructor KeyboardInterrupt"}) =>
        /\ exit_status \in {0, 1}
        /\ exit_reason \in {"KeyboardInterrupt", "end of stream", "OSError"}
              => exit_status = 0
        /\ exit_status = 1 => exit_reason = "device not found"

\* C14: a disconnect issued at time now leaves last_timestamp = now (in
\* every iteration that no signal cuts short), and any two disconnect
\* commands are more than 300 seconds apart.
C14_DisconnectsApart ==
    /\ (Has(cmds, {"bt_disconnect"}) /\ exc # "KeyboardInterrupt")
          => last_timestamp = now
    /\ \A i, j \in 1..Len(disconnect_times) :
          i < j => disconnect_times[j] - disconnect_times[i] > IDLE_THRESHOLD

\* C14 witness: a second disconnect, 301 seconds after the first.
C14_Witness ==
    /\ Len(disconnect_times) = 2
    /\ Has(cmds, {"bt_disconnect"})
    /\ disconnect_times[2] = now
    /\ now - disconnect_times[1] = IDLE_THRESHOLD + 1

\* C15: on a wireless device a button-down that arrives more than 300
\* seconds after the last activity issues the disconnect command first,
\* judged by the timestamp from before the event, and the event is then
\* handled as any button-down: the action of a completed combo is called
\* and pressed_buttons emptied, or the code is added to pressed_buttons
\* (in every iteration that no signal cuts short).
C15_IdleCheckBeforeEvent ==
    [][(/\ EventStep
        /\ is_bluetooth
        /\ IsDown(ev')
        /\ exc' # "KeyboardInterrupt"
        /\ now' - last_timestamp > IDLE_THRESHOLD)
       => LET p == pressed_buttons \cup {ev'.code}
              M == Contained(p)
          IN  /\ Len(cmds') >= 1
              /\ cmds'[1] = Cmd("bt_disconnect", <<>>)
              /\ IF M # {}
                 THEN /\ dispatched' = <<action_of(FirstOf(M))>>
                      /\ pressed_buttons' = {}
                      /\ Len(cmds') >= 2
                 ELSE /\ dispatched' = <<>>
                      /\ pressed_buttons' = p]_vars

\* C15 witness: the button-down that completed the mangohud combo came
\* after an idle period; the disconnect was issued, then the toggle.
C15_Witness ==
    /\ is_bluetooth
    /\ IsDown(ev)
    /\ cmds = <<Cmd("bt_disconnect", <<>>), Cmd("mangohud_toggle", <<>>)>>
    /\ dispatched = <<"toggle_mangohud">>
    /\ pressed_buttons = {}
    /\ pc = "running"

IsPrefix(a, b) == Len(a) <= Len(b) /\ \A i \in 1..Len(a) : a[i] = b[i]

\* The commands of enable_tty(11) and of a restart_tty that is not guarded,
\* with x telling whether the marker file was there.
EnableTtySteps(x) ==
    <<Cmd("gdm_stop", <<>>), Cmd("remove_notv", <<x>>),
      Cmd("chvt", <<TTY11>>), Cmd("getty_start", <<TTY11>>)>>
RestartTtySteps(x, n) ==
    <<Cmd("fgconsole", <<>>), Cmd("remove_notv", <<x>>),
      Cmd("getty_restart", <<n>>)>>

\* The commands of the terminal actions in the log of a step, without the
\* kill that the except OSError clause of main_loop may add after them.
IsTerminalCmd(c) ==
    c.cmd \in {"gdm_stop", "remove_notv", "chvt", "getty_start", "fgconsole",
               "getty_restart"}
TerminalCmds == SelectSeq(cmds, IsTerminalCmd)

\* C16: the tty11 action issues gdm stop, marker removal, chvt 11, getty
\* start 11 in this order (what it issued is always a beginning of that
\* sequence, and the whole of it when nothing was raised); a restart_tty
\* that is not guarded removes the marker before it restarts getty; after
\* the removal of an absent marker the next command is always issued,
\* unless a signal ends the action there.
C16_TerminalOrder ==
    /\ Called(dispatched, "enable_tty") =>
          \E x \in {0, 1} :
             /\ IsPrefix(TerminalCmds, EnableTtySteps(x))
             /\ exc = "none" => cmds = EnableTtySteps(x)
    /\ (Called(dispatched, "restart_tty") /\ Has(cmds, {"remove_notv", "getty_restart"})) =>
          \E x \in {0, 1} :
             /\ IsPrefix(TerminalCmds, RestartTtySteps(x, active_tty))
             /\ exc = "none" => cmds = RestartTtySteps(x, active_tty)
    /\ \A i \in 1..Len(TerminalCmds) :
          TerminalCmds[i] = Cmd("remove_notv", <<0>>) =>
             (Len(TerminalCmds) > i \/ exc = "KeyboardInterrupt")

\* C16 witness: enable_tty ran to its end although the marker file was
\* absent.
C16_Witness ==
    /\ dispatched = <<"enable_tty">>
    /\ exc = "none"
    /\ cmds = EnableTtySteps(0)
    /\ pc = "running"

\* C17, as stated: the reset action on a terminal below 9 issues no marker
\* removal and no getty restart; on terminal 9 or above it removes the
\* marker and restarts getty for that terminal; in both cases
\* pressed_buttons is empty and the loop stays Running.
C17_ResetGuard ==
    (Called(dispatched, "restart_tty") /\ active_tty >= 0) =>
        /\ pressed_buttons = {}
        /\ pc = "running"
        /\ IF active_tty < FIRST_RESTARTABLE_TTY
           THEN ~Has(cmds, {"remove_notv", "getty_restart"})
           ELSE /\ Has(cmds, {"remove_notv"})
                /\ cmds[Len(cmds)] = Cmd("getty_restart", <<active_tty>>)

\* C18, as stated: when the kill of toggle_xboxdrv fails because the
\* process is already gone, the handle is cleared and the loop keeps
\* Running.
C18_KillFailureTolerated ==
    (/\ Called(dispatched, "toggle_xboxdrv")
     /\ cmds = <<Cmd("killpg_xboxdrv", <<>>)>>
     /\ exc = "OSError")
        => (xboxdrv_process = "None" /\ pc = "running")

\* The bound combo that BTN_MODE completes with a third button.
ComboOfThird(code) ==
    CASE code = BTN_SOUTH -> "tty11"
      [] code = BTN_WEST -> "mangohud"
      [] code = BTN_START -> "xboxdrv"

\* C19: a button-down after which pressed_buttons contains the makima
\* combo and no bound combo calls no action and clears nothing; with the
\* makima combo in pressed_buttons, a button-down of BTN_SOUTH, BTN_WEST or
\* BTN_START calls the action of the bound combo it completes (of every
\* button-down that no signal cuts short).
C19_MakimaUnbound ==
    [][(EventStep /\ IsDown(ev') /\ exc' # "KeyboardInterrupt") =>
         LET p == pressed_buttons \cup {ev'.code}
         IN  /\ (issuperset(p, makima_combo) /\ Contained(p) = {}) =>
                    /\ dispatched' = <<>>
                    /\ pressed_buttons' = p
             /\ (/\ issuperset(pressed_buttons, makima_combo)
                 /\ ev'.code \in {BTN_SOUTH, BTN_WEST, BTN_START}) =>
                    dispatched' = <<action_of(ComboOfThird(ev'.code))>>]_vars

\* C19 witness: with MODE and SELECT in the set, BTN_START went down and
\* toggle_xboxdrv was called.
C19_Witness ==
    /\ IsDown(ev)
    /\ ev.code = BTN_START
    /\ tested = makima_combo \cup {BTN_START}
    /\ dispatched = <<"toggle_xboxdrv">>
    /\ pressed_buttons = {}

\* C20: pressed_buttons is never a superset of a bound combo once
\* handle_event is done with an event (no signal has cut it short), and a
\* bound combo fires only when every one of its buttons has had a
\* button-down since the last match.
C20_NoBoundComboRemains ==
    /\ [](exc # "KeyboardInterrupt" => Contained(pressed_buttons) = {})
    /\ [][\A X \in BoundCombos :
            (EventStep /\ Called(dispatched', action_of(X)))
               => ComboSet(X) \subseteq (since_match \cup {ev'.code})]_vars

\* C20 witness: after the tty11 combo fired, with BTN_SOUTH still held,
\* BTN_MODE and BTN_WEST went down again and the mangohud combo fired.
C20_Witness ==
    /\ dispatched = <<"toggle_mangohud">>
    /\ tested = mangohud_combo
    /\ BTN_SOUTH \in held
    /\ pressed_buttons = {}
    /\ pc = "running"

====
